---------------------------- MODULE Spec2Model ----------------------------
(***************************************************************************)
(* go-tease: the Server and Client connection wrappers (client.go) and the  *)
(* seek-over-stream readers they grew out of (forwardMultiReadSeeker,       *)
(* teeReadSeeker, Reader).                                                 *)
(*                                                                         *)
(* One wrapper instance is modelled together with the net.Conn it wraps.   *)
(* kind says which of the two types the instance is.  Every exported       *)
(* method is one action; the calls it makes on the underlying connection   *)
(* are recorded in io, and what it returned in ret, so that pre/post       *)
(* conditions of a call are formulas over one state or one step.           *)
(*                                                                         *)
(*   Spec         one caller at a time on a Server or a Client wrapper     *)
(*   SpecThreads  two goroutines calling into one Server wrapper           *)
(*   SpecMR       a forwardMultiReadSeeker over a list of sources          *)
(*   SpecReader   a Reader over one source                                 *)
(*   SpecTee      a teeReadSeeker over one source and one sink             *)
(***************************************************************************)
EXTENDS Integers, Sequences, FiniteSets, TLC

\* ------------------------------------------------------------------ bounds
\* MaxBuffer is the wrapper's MaxBuffer field (1024 after NewServer/NewClient,
\* caller-settable); it is kept small here.
MaxBuffer == 2
\* Number of bytes a transport stream holds before it reports EOF.
WireLen == 3
\* Largest buffer a caller passes to Read or Write.
MaxReq == 2
\* Most bytes the underlying stream has accepted when Pipe is still called.
MaxOut == 3
\* Number of replacement streams handed to SetNewConn.
MaxConns == 1
\* Number of bytes callers hand to Write over the life of the wrapper.
MaxWritten == 3
\* Number of calls each goroutine makes on a wrapper shared by two.
ThreadCalls == 2
\* Most sources handed to ForwardMultiReadSeeker, and most bytes in one source.
MaxSrcs == 3
MaxSrcLen == 3
\* len(mr.buf), the scratch buffer Seek reads into (2048 in the constructor).
BufLen == 2
\* Largest offset handed to Seek or ReadAt.
MaxSeek == 4
\* Largest buffer handed to Read or ReadAt of a Reader.
MaxRead == 3
\* Number of calls made on one forwardMultiReadSeeker, and how many of them
\* are Seeks.
MaxCalls == 5
MaxSeeks == 1
\* Number of calls made on one Reader, and how many of them are Seek or ReadAt.
MaxReaderCalls == 4
MaxAts == 2

Min(a, b) == IF a < b THEN a ELSE b

\* The i-th byte a transport stream produces; distinct per offset so that a
\* lost, repeated or reordered byte changes the delivered sequence.
Wire(i) == 10 + i

\* Go's s[lo:hi] on a sequence (0-based, hi exclusive).
Slice(s, lo, hi) == SubSeq(s, lo + 1, hi)
\* Go's s[lo:]
From(s, lo) == SubSeq(s, lo + 1, Len(s))

VARIABLES
    kind,        \* "Server" | "Client": the wrapper type of the instance
    isPiped,     \* c.isPiped
    err,         \* c.err
    rawInput,    \* c.rawInput
    inputCnt,    \* c.inputCnt
    rawOutput,   \* c.rawOutput
    outputCnt,   \* c.outputCnt (Client only)
    panicked,    \* a method ended in a run-time panic
    conn,        \* identity of the stream c.conn refers to
    closed,      \* streams on which Close() was called
    broken,      \* the current stream has failed with an I/O error
    rpos,        \* bytes the current stream has produced through Read
    connOut,     \* bytes the current stream has accepted through Write
    ret,         \* the last method call: what it was given and what it returned
    io,          \* the calls the last method made on the underlying stream
    wcnt,        \* bytes callers have handed to Write so far
    delivered,   \* history: bytes Server Reads returned since creation, the
                 \*   last Replay or the first Pipe, whichever came last
    h_written,   \* history: bytes Detecting-mode Writes accepted since creation
                 \*   or, on a Server, the last Replay
    h_writes,    \* history: Detecting-mode Server Writes that accepted >= 1 byte
    h_pipeRest,  \* history: rawInput[inputCnt:] when Pipe first ran
    h_pipePos,   \* history: rpos when Pipe first ran
    mu,          \* c.mu: 0 when unlocked, else the goroutine that holds it
    pc,          \* where each goroutine is inside the method it called
    mr,          \* a forwardMultiReadSeeker: readers, pos
    rd,          \* a Reader with its source, capture buffer and tee reader
    tee,         \* a teeReadSeeker with its source and its sink: r, w, pos
    out          \* the last call on mr or rd, and the bytes read so far

wrapper  == <<kind, isPiped, err, rawInput, inputCnt, rawOutput, outputCnt, panicked>>
buffers  == <<rawInput, inputCnt, rawOutput, outputCnt>>
stream   == <<conn, closed, broken, rpos, connOut>>
history  == <<delivered, h_written, h_writes, h_pipeRest, h_pipePos>>
threads  == <<mu, pc>>
readers  == <<mr, rd, tee, out>>
vars     == <<wrapper, stream, ret, io, wcnt, history, threads, readers>>

\* The buffer of the next Write call of m bytes: the caller's bytes are numbered
\* in the order they are handed over, so that each is told from every other.
Chunk(m) == [i \in 1..m |-> wcnt + i]

\* ------------------------------------------------------- underlying stream
IsClosed == conn \in closed

\* Results of conn.Read(buf) with len(buf) = k: an error on a closed or failed
\* stream; otherwise up to k of the bytes that remain (a short read is
\* allowed), EOF when none remain, or an I/O error that may still have
\* consumed bytes and after which the stream stays failed.
ConnRead(k) ==
    IF IsClosed THEN {[n |-> 0, err |-> "errNetClosed"]}
    ELSE IF broken THEN {[n |-> 0, err |-> "errIO"]}
    ELSE IF k = 0 THEN {[n |-> 0, err |-> "nil"]}
    ELSE IF rpos >= WireLen THEN {[n |-> 0, err |-> "EOF"]}
    ELSE {[n |-> m, err |-> "nil"] : m \in 1..Min(k, WireLen - rpos)}
         \cup {[n |-> m, err |-> "errIO"] : m \in 0..Min(k, WireLen - rpos)}

\* The bytes a read of n bytes at offset pos puts in the caller's buffer.
WireBytes(pos, n) == [i \in 1..n |-> Wire(pos + i)]

\* Results of conn.Write(b) on a stream that is closed (cl) or failed (br): an
\* error; otherwise all of b, or a prefix of b together with an I/O error
\* after which the stream stays failed, or a timeout before any byte was taken
\* (the write deadline passed), after which the stream is still usable.
ConnWrite(b, cl, br) ==
    IF cl THEN {[n |-> 0, err |-> "errNetClosed"]}
    ELSE IF br THEN {[n |-> 0, err |-> "errIO"]}
    ELSE {[n |-> Len(b), err |-> "nil"]}
         \cup {[n |-> m, err |-> "errIO"] : m \in 0..(Len(b) - 1)}
         \cup (IF Len(b) > 0 THEN {[n |-> 0, err |-> "errTimeout"]} ELSE {})

\* Result of conn.Close()
ConnClose == IF IsClosed THEN "errNetClosed" ELSE "nil"

\* The stream after a Read or Write with result o
Fails(o) == broken \/ o.err = "errIO"

\* Entries of io
RdCall(k, o) == [call |-> "Read", len |-> k, data |-> WireBytes(rpos, o.n),
                 n |-> o.n, err |-> o.err]
WrCall(b, o) == [call |-> "Write", len |-> Len(b), data |-> b,
                 n |-> o.n, err |-> o.err]
ClCall       == [call |-> "Close", len |-> 0, data |-> <<>>, n |-> 0, err |-> ConnClose]

\* What a method call was given (len, data) and what it returned (n, err);
\* for Read data is what was copied into the caller's buffer.
Ret(op, k, d, n, e) == [op |-> op, len |-> k, data |-> d, n |-> n, err |-> e]

\* ------------------------------------------------------------------- Init
\* The goroutines that call into one wrapper
Threads == {1, 2}

\* A goroutine that is at label at of a call with argument k and has left
\* calls still to make
At(at, k, left) == [at |-> at, k |-> k, left |-> left]

\* The fields NewServer / NewClient leave at their zero values, and the stream
\* handed to them
NewWrapper ==
    /\ isPiped = FALSE
    /\ err = "nil"
    /\ rawInput = <<>>
    /\ inputCnt = 0
    /\ rawOutput = <<>>
    /\ outputCnt = 0
    /\ panicked = FALSE
    /\ conn = 0
    /\ closed = {}
    /\ broken = FALSE
    /\ rpos = 0
    /\ connOut = <<>>
    /\ ret = Ret("New", 0, <<>>, 0, "nil")
    /\ io = <<>>
    /\ wcnt = 0
    /\ delivered = <<>>
    /\ h_written = <<>>
    /\ h_writes = 0
    /\ h_pipeRest = <<>>
    /\ h_pipePos = 0
    /\ mu = 0
    /\ pc = [t \in Threads |-> At("idle", 0, ThreadCalls)]

\* No forwardMultiReadSeeker, no Reader and no teeReadSeeker has been made
NoReader == [r |-> <<>>, buf |-> <<>>, r_tee |-> 0, pos |-> 0, pipe |-> FALSE,
             r_mr |-> [t |-> "mr", readers |-> <<>>, pos |-> 0]]
NoTee == [r |-> <<>>, w |-> <<>>, pos |-> 0, werr |-> FALSE]
NoReaders ==
    /\ mr = [t |-> "mr", readers |-> <<>>, pos |-> 0]
    /\ rd = NoReader
    /\ tee = NoTee
    /\ out = [op |-> "New", lens |-> <<>>, calls |-> 0, seeks |-> 0]

\* NewServer / NewClient
Init ==
    /\ kind \in {"Server", "Client"}
    /\ NewWrapper
    /\ NoReaders

\* ----------------------------------------------------------------- shared
\* Pipe's "trim input buffer": c.rawInput = c.rawInput[c.inputCnt:]
TrimInput_keep(buf, cnt) == buf
TrimInput(buf, cnt) == IF cnt > 0 THEN From(buf, cnt) ELSE buf

\* The "Mind limits" test of read and write
OverLimit_strict(total) == total >= MaxBuffer
OverLimit_never(total) == FALSE
OverLimit(total) == total > MaxBuffer

\* write's "add writes to buffer": append(c.rawOutput, b...)
AddWrite_replace(buf, b) == b
AddWrite(buf, b) == buf \o b

\* The forced close of the limit branches: c.conn.Close()
ForceClose_none ==
    /\ closed' = closed
    /\ io' = <<>>
ForceClose ==
    /\ closed' = closed \cup {conn}
    /\ io' = <<ClCall>>

\* A call on the short circuit: n, err = c.conn.Read(b), len(b) = k
ReadDirect_counted(k) ==
    \E o \in ConnRead(k) :
        /\ rpos' = rpos + o.n
        /\ broken' = Fails(o)
        /\ inputCnt' = inputCnt + o.n
        /\ ret' = Ret("Read", k, WireBytes(rpos, o.n), o.n, o.err)
        /\ io' = <<RdCall(k, o)>>
        /\ delivered' = (IF kind = "Server"
                         THEN delivered \o WireBytes(rpos, o.n) ELSE delivered)
        /\ UNCHANGED <<kind, isPiped, err, rawInput, rawOutput, outputCnt, panicked>>
        /\ UNCHANGED <<conn, closed, connOut>>
        /\ UNCHANGED <<h_written, h_writes, h_pipeRest, h_pipePos>>
ReadDirect(k) ==
    \E o \in ConnRead(k) :
        /\ rpos' = rpos + o.n
        /\ broken' = Fails(o)
        /\ ret' = Ret("Read", k, WireBytes(rpos, o.n), o.n, o.err)
        /\ io' = <<RdCall(k, o)>>
        /\ delivered' = (IF kind = "Server"
                         THEN delivered \o WireBytes(rpos, o.n) ELSE delivered)
        /\ UNCHANGED <<wrapper, conn, closed, connOut>>
        /\ UNCHANGED <<h_written, h_writes, h_pipeRest, h_pipePos>>

\* A call on the short circuit: n, err = c.conn.Write(b)
WriteDirect_buffered(b) ==
    \E o \in ConnWrite(b, IsClosed, broken) :
        /\ connOut' = connOut \o Slice(b, 0, o.n)
        /\ broken' = Fails(o)
        /\ rawOutput' = rawOutput \o b
        /\ ret' = Ret("Write", Len(b), b, o.n, o.err)
        /\ io' = <<WrCall(b, o)>>
        /\ UNCHANGED <<kind, isPiped, err, rawInput, inputCnt, outputCnt, panicked>>
        /\ UNCHANGED <<conn, closed, rpos, history>>
WriteDirect(b) ==
    \E o \in ConnWrite(b, IsClosed, broken) :
        /\ connOut' = connOut \o Slice(b, 0, o.n)
        /\ broken' = Fails(o)
        /\ ret' = Ret("Write", Len(b), b, o.n, o.err)
        /\ io' = <<WrCall(b, o)>>
        /\ UNCHANGED <<wrapper, conn, closed, rpos, history>>

\* write, "Mind limits" branch (Server and Client)
writeOverLimit(b) ==
    /\ err' = "errMaxBuffer"
    /\ ForceClose
    /\ ret' = Ret("Write", Len(b), b, 0, "errMaxBuffer")
    /\ UNCHANGED <<kind, isPiped, rawInput, inputCnt, rawOutput, outputCnt, panicked>>
    /\ UNCHANGED <<conn, broken, rpos, connOut, history>>

\* Replay on a piped wrapper (Server and Client): return errAlreadyPipe
ReplayRejected_reset ==
    /\ ret' = Ret("Replay", 0, <<>>, 0, "errAlreadyPipe")
    /\ io' = <<>>
    /\ rawOutput' = <<>>
    /\ UNCHANGED <<kind, isPiped, err, rawInput, inputCnt, outputCnt, panicked>>
    /\ UNCHANGED <<stream, history>>
ReplayRejected ==
    /\ ret' = Ret("Replay", 0, <<>>, 0, "errAlreadyPipe")
    /\ io' = <<>>
    /\ UNCHANGED <<wrapper, stream, history>>

\* History kept by Pipe: what the first Pipe found.
PipeHistory ==
    /\ delivered' = (IF isPiped THEN delivered ELSE <<>>)
    /\ h_pipeRest' = (IF isPiped THEN h_pipeRest ELSE From(rawInput, inputCnt))
    /\ h_pipePos' = (IF isPiped THEN h_pipePos ELSE rpos)
    /\ UNCHANGED <<h_written, h_writes>>

\* Close (Server and Client): the stream is closed only when piped
Close_always ==
    /\ ~panicked
    /\ UNCHANGED <<wcnt, threads, readers>>
    /\ closed' = closed \cup {conn}
    /\ ret' = Ret("Close", 0, <<>>, 0, ConnClose)
    /\ io' = <<ClCall>>
    /\ UNCHANGED <<wrapper, conn, broken, rpos, connOut, history>>
Close ==
    /\ ~panicked
    /\ UNCHANGED <<wcnt, threads, readers>>
    /\ IF isPiped
       THEN /\ closed' = closed \cup {conn}
            /\ ret' = Ret("Close", 0, <<>>, 0, ConnClose)
            /\ io' = <<ClCall>>
            /\ UNCHANGED <<wrapper, conn, broken, rpos, connOut, history>>
       ELSE /\ err' = "errClosed"
            /\ ret' = Ret("Close", 0, <<>>, 0, "nil")
            /\ io' = <<>>
            /\ UNCHANGED <<kind, isPiped, rawInput, inputCnt, rawOutput, outputCnt, panicked>>
            /\ UNCHANGED <<stream, history>>

\* ----------------------------------------------------------------- Server
\* read, "if c.isPiped" branch: hand out what is left of rawInput, then go to
\* the connection for the rest of b.
Server_readPiped(k) ==
    IF Len(rawInput) > 0
    THEN LET n == Min(k, Len(rawInput)) IN
         IF k <= Len(rawInput)
         THEN /\ rawInput' = From(rawInput, n)
              /\ ret' = Ret("Read", k, Slice(rawInput, 0, n), n, "nil")
              /\ io' = <<>>
              /\ delivered' = delivered \o Slice(rawInput, 0, n)
              /\ UNCHANGED <<kind, isPiped, err, inputCnt, rawOutput, outputCnt, panicked>>
              /\ UNCHANGED <<stream, h_written, h_writes, h_pipeRest, h_pipePos>>
         ELSE \E o \in ConnRead(k - n) :
              /\ rawInput' = <<>>
              /\ err' = o.err
              /\ rpos' = rpos + o.n
              /\ broken' = Fails(o)
              /\ ret' = Ret("Read", k, rawInput \o WireBytes(rpos, o.n), n + o.n, o.err)
              /\ io' = <<RdCall(k - n, o)>>
              /\ delivered' = delivered \o rawInput \o WireBytes(rpos, o.n)
              /\ UNCHANGED <<kind, isPiped, inputCnt, rawOutput, outputCnt, panicked>>
              /\ UNCHANGED <<conn, closed, connOut>>
              /\ UNCHANGED <<h_written, h_writes, h_pipeRest, h_pipePos>>
    ELSE \E o \in ConnRead(k) :
              /\ err' = o.err
              /\ rpos' = rpos + o.n
              /\ broken' = Fails(o)
              /\ ret' = Ret("Read", k, WireBytes(rpos, o.n), o.n, o.err)
              /\ io' = <<RdCall(k, o)>>
              /\ delivered' = delivered \o WireBytes(rpos, o.n)
              /\ UNCHANGED <<kind, isPiped, rawInput, inputCnt, rawOutput, outputCnt, panicked>>
              /\ UNCHANGED <<conn, closed, connOut>>
              /\ UNCHANGED <<h_written, h_writes, h_pipeRest, h_pipePos>>

\* read, "Has Written" branch: c.err = errHasWriten; return 0, errHasWriten
Server_readHasWritten_allow(k) ==
    LET n == Min(k, Len(rawInput) - inputCnt) IN
    /\ inputCnt' = inputCnt + n
    /\ ret' = Ret("Read", k, Slice(rawInput, inputCnt, inputCnt + n), n, "nil")
    /\ io' = <<>>
    /\ delivered' = delivered \o Slice(rawInput, inputCnt, inputCnt + n)
    /\ UNCHANGED <<kind, isPiped, err, rawInput, rawOutput, outputCnt, panicked>>
    /\ UNCHANGED <<stream, h_written, h_writes, h_pipeRest, h_pipePos>>
Server_readHasWritten(k) ==
    /\ err' = "errHasWriten"
    /\ ret' = Ret("Read", k, <<>>, 0, "errHasWriten")
    /\ io' = <<>>
    /\ UNCHANGED <<kind, isPiped, rawInput, inputCnt, rawOutput, outputCnt, panicked>>
    /\ UNCHANGED <<stream, history>>

\* read, "Mind limits" branch: err, c.err = errMaxBuffer, errMaxBuffer; c.conn.Close()
Server_readOverLimit(k) ==
    /\ err' = "errMaxBuffer"
    /\ ForceClose
    /\ ret' = Ret("Read", k, <<>>, 0, "errMaxBuffer")
    /\ UNCHANGED <<kind, isPiped, rawInput, inputCnt, rawOutput, outputCnt, panicked>>
    /\ UNCHANGED <<conn, broken, rpos, connOut, history>>

\* read, "read more into memory": the rest of "Buffer any additional reads",
\* then "Read off what we have".  On a transport error the bytes of buff are
\* dropped and n is still 0.
Server_readFill(k) ==
    \E o \in ConnRead(inputCnt + k - Len(rawInput)) :
        /\ err' = o.err
        /\ rpos' = rpos + o.n
        /\ broken' = Fails(o)
        /\ io' = <<RdCall(inputCnt + k - Len(rawInput), o)>>
        /\ IF o.err # "nil"
           THEN /\ ret' = Ret("Read", k, <<>>, 0, o.err)
                /\ UNCHANGED <<rawInput, inputCnt, delivered>>
           ELSE LET buf == rawInput \o WireBytes(rpos, o.n)
                    n   == Min(k, Len(buf) - inputCnt)
                IN  /\ rawInput' = buf
                    /\ inputCnt' = inputCnt + n
                    /\ ret' = Ret("Read", k, Slice(buf, inputCnt, inputCnt + n), n, "nil")
                    /\ delivered' = delivered \o Slice(buf, inputCnt, inputCnt + n)
        /\ UNCHANGED <<kind, isPiped, rawOutput, outputCnt, panicked>>
        /\ UNCHANGED <<conn, closed, connOut>>
        /\ UNCHANGED <<h_written, h_writes, h_pipeRest, h_pipePos>>

\* read, "Read off what we have" when the buffer already holds the request
Server_readOff(k) ==
    LET n == Min(k, Len(rawInput) - inputCnt) IN
    /\ inputCnt' = inputCnt + n
    /\ ret' = Ret("Read", k, Slice(rawInput, inputCnt, inputCnt + n), n, "nil")
    /\ io' = <<>>
    /\ delivered' = delivered \o Slice(rawInput, inputCnt, inputCnt + n)
    /\ UNCHANGED <<kind, isPiped, err, rawInput, rawOutput, outputCnt, panicked>>
    /\ UNCHANGED <<stream, h_written, h_writes, h_pipeRest, h_pipePos>>

\* func (c *Server) read(b []byte), len(b) = k.  The opening test
\* "if err != nil" reads the named result err, which is nil on entry, so read
\* never returns there.
Server_read(k) ==
    IF isPiped THEN Server_readPiped(k)
    ELSE IF Len(rawOutput) > 0 THEN Server_readHasWritten(k)
    ELSE IF inputCnt + k > Len(rawInput)
         THEN IF OverLimit(inputCnt + k)
              THEN Server_readOverLimit(k)
              ELSE Server_readFill(k)
         ELSE Server_readOff(k)

\* func (c *Server) Read(b []byte), len(b) = k
Server_Read(k) ==
    /\ kind = "Server" /\ ~panicked
    /\ UNCHANGED <<threads, readers>>
    /\ UNCHANGED wcnt
    /\ IF isPiped /\ Len(rawInput) = 0
       THEN ReadDirect(k)
       ELSE Server_read(k)

\* func (c *Server) write(b []byte).  As in read, "if err != nil" tests the
\* named result and never returns.
Server_write(b) ==
    IF OverLimit(Len(rawOutput) + Len(b))
    THEN writeOverLimit(b)
    ELSE /\ rawOutput' = AddWrite(rawOutput, b)
         /\ ret' = Ret("Write", Len(b), b, Len(b), "nil")
         /\ io' = <<>>
         /\ h_written' = h_written \o b
         /\ h_writes' = (IF Len(b) > 0 THEN h_writes + 1 ELSE h_writes)
         /\ UNCHANGED <<kind, isPiped, err, rawInput, inputCnt, outputCnt, panicked>>
         /\ UNCHANGED <<stream, delivered, h_pipeRest, h_pipePos>>

\* func (c *Server) Write(b []byte), len(b) = m
Server_Write(m) ==
    /\ kind = "Server" /\ ~panicked
    /\ UNCHANGED <<threads, readers>>
    /\ wcnt + m <= MaxWritten
    /\ wcnt' = wcnt + m
    /\ IF isPiped THEN WriteDirect(Chunk(m)) ELSE Server_write(Chunk(m))

\* func (c *Server) Replay()
Server_Replay_keepCursor ==
    /\ kind = "Server" /\ ~panicked
    /\ UNCHANGED <<threads, readers>>
    /\ UNCHANGED wcnt
    /\ IF isPiped THEN ReplayRejected
       ELSE /\ rawOutput' = <<>>
            /\ err' = (IF err = "errClosed" THEN "nil" ELSE err)
            /\ ret' = Ret("Replay", 0, <<>>, 0, "nil")
            /\ io' = <<>>
            /\ delivered' = <<>>
            /\ h_written' = <<>>
            /\ UNCHANGED <<kind, isPiped, rawInput, inputCnt, outputCnt, panicked>>
            /\ UNCHANGED <<stream, h_writes, h_pipeRest, h_pipePos>>
Server_Replay ==
    /\ kind = "Server" /\ ~panicked
    /\ UNCHANGED <<threads, readers>>
    /\ UNCHANGED wcnt
    /\ IF isPiped THEN ReplayRejected
       ELSE /\ rawOutput' = <<>>
            /\ inputCnt' = 0
            /\ err' = (IF err = "errClosed" THEN "nil" ELSE err)
            /\ ret' = Ret("Replay", 0, <<>>, 0, "nil")
            /\ io' = <<>>
            /\ delivered' = <<>>
            /\ h_written' = <<>>
            /\ UNCHANGED <<kind, isPiped, rawInput, outputCnt, panicked>>
            /\ UNCHANGED <<stream, h_writes, h_pipeRest, h_pipePos>>

\* func (c *Server) Pipe(), from c.mu.Lock() to the deferred Unlock
Server_PipeLocked ==
    /\ rawInput' = TrimInput(rawInput, inputCnt)
    /\ IF Len(rawOutput) > 0
       THEN \E o \in ConnWrite(rawOutput, IsClosed, broken) :
            /\ connOut' = connOut \o Slice(rawOutput, 0, o.n)
            /\ broken' = Fails(o)
            /\ err' = o.err
            /\ ret' = Ret("Pipe", 0, <<>>, 0, o.err)
            /\ io' = <<WrCall(rawOutput, o)>>
       ELSE /\ ret' = Ret("Pipe", 0, <<>>, 0, "nil")
            /\ io' = <<>>
            /\ UNCHANGED <<connOut, broken, err>>
    /\ inputCnt' = 0
    /\ isPiped' = TRUE
    /\ PipeHistory
    /\ UNCHANGED <<kind, rawOutput, outputCnt, panicked, conn, closed, rpos>>

\* func (c *Server) Pipe()
Server_Pipe ==
    /\ kind = "Server" /\ ~panicked
    /\ UNCHANGED <<wcnt, threads, readers>>
    /\ Len(connOut) <= MaxOut
    /\ Server_PipeLocked

\* func (c *Server) Close()
Server_Close == kind = "Server" /\ Close

\* ----------------------------------------------------------------- Client
\* func (c *Client) Read(b []byte): n, err = c.conn.Read(b), in either mode
Client_Read(k) ==
    /\ kind = "Client" /\ ~panicked
    /\ UNCHANGED <<threads, readers>>
    /\ UNCHANGED wcnt
    /\ ReadDirect(k)

\* func (c *Client) write(b []byte): buffer b, then forward it
Client_write(b) ==
    IF OverLimit(Len(rawOutput) + Len(b))
    THEN writeOverLimit(b)
    ELSE \E o \in ConnWrite(b, IsClosed, broken) :
         /\ rawOutput' = AddWrite(rawOutput, b)
         /\ connOut' = connOut \o Slice(b, 0, o.n)
         /\ broken' = Fails(o)
         /\ outputCnt' = outputCnt + o.n
         /\ ret' = Ret("Write", Len(b), b, o.n, o.err)
         /\ io' = <<WrCall(b, o)>>
         /\ h_written' = h_written \o b
         /\ UNCHANGED <<kind, isPiped, err, rawInput, inputCnt, panicked>>
         /\ UNCHANGED <<conn, closed, rpos, delivered, h_writes, h_pipeRest, h_pipePos>>

\* func (c *Client) Write(b []byte), len(b) = m
Client_Write(m) ==
    /\ kind = "Client" /\ ~panicked
    /\ UNCHANGED <<threads, readers>>
    /\ wcnt + m <= MaxWritten
    /\ wcnt' = wcnt + m
    /\ IF isPiped THEN WriteDirect(Chunk(m)) ELSE Client_write(Chunk(m))

\* func (c *Client) Replay()
Client_Replay ==
    /\ kind = "Client" /\ ~panicked
    /\ UNCHANGED <<threads, readers>>
    /\ UNCHANGED wcnt
    /\ IF isPiped THEN ReplayRejected
       ELSE /\ rawInput' = <<>>
            /\ inputCnt' = 0
            /\ outputCnt' = 0
            /\ err' = (IF err = "errClosed" THEN "nil" ELSE err)
            /\ ret' = Ret("Replay", 0, <<>>, 0, "nil")
            /\ io' = <<>>
            /\ UNCHANGED <<kind, isPiped, rawOutput, panicked>>
            /\ UNCHANGED <<stream, history>>

\* func (c *Client) Pipe().  The flush writes c.rawOutput[c.outputCnt-1:]; with
\* outputCnt = 0 the slice expression panics (index -1) after the trim, the
\* deferred Unlock runs and Pipe does not return.
Client_Pipe ==
    /\ kind = "Client" /\ ~panicked
    /\ UNCHANGED <<threads, readers>>
    /\ Len(connOut) <= MaxOut
    /\ rawInput' = TrimInput(rawInput, inputCnt)
    /\ IF Len(rawOutput) > 0 /\ outputCnt < Len(rawOutput)
       THEN IF outputCnt - 1 < 0
            THEN /\ panicked' = TRUE
                 /\ ret' = Ret("Pipe", 0, <<>>, 0, "panic")
                 /\ io' = <<>>
                 /\ UNCHANGED <<connOut, broken, err, inputCnt, outputCnt, isPiped, history>>
            ELSE \E o \in ConnWrite(From(rawOutput, outputCnt - 1), IsClosed, broken) :
                 /\ connOut' = connOut \o Slice(From(rawOutput, outputCnt - 1), 0, o.n)
                 /\ broken' = Fails(o)
                 /\ err' = o.err
                 /\ ret' = Ret("Pipe", 0, <<>>, 0, o.err)
                 /\ io' = <<WrCall(From(rawOutput, outputCnt - 1), o)>>
                 /\ inputCnt' = 0 /\ outputCnt' = 0
                 /\ isPiped' = TRUE
                 /\ PipeHistory
                 /\ UNCHANGED panicked
       ELSE /\ ret' = Ret("Pipe", 0, <<>>, 0, "nil")
            /\ io' = <<>>
            /\ inputCnt' = 0 /\ outputCnt' = 0
            /\ isPiped' = TRUE
            /\ PipeHistory
            /\ UNCHANGED <<connOut, broken, err, panicked>>
    /\ UNCHANGED <<kind, rawOutput, conn, closed, rpos, wcnt>>

\* func (c *Client) Close()
Client_Close == kind = "Client" /\ Close

\* func (c *Client) SetNewConn(conn net.Conn): close the stream in use, adopt
\* a fresh open one and write the whole of rawOutput to it.
Client_SetNewConn_unsent ==
    /\ kind = "Client" /\ ~panicked
    /\ UNCHANGED <<threads, readers>>
    /\ conn < MaxConns
    /\ closed' = closed \cup {conn}
    /\ conn' = conn + 1
    /\ rpos' = 0
    /\ \E o \in ConnWrite(From(rawOutput, outputCnt), FALSE, FALSE) :
        /\ connOut' = Slice(From(rawOutput, outputCnt), 0, o.n)
        /\ broken' = (o.err = "errIO")
        /\ outputCnt' = o.n
        /\ ret' = Ret("SetNewConn", 0, <<>>, 0, o.err)
        /\ io' = <<ClCall, WrCall(From(rawOutput, outputCnt), o)>>
    /\ UNCHANGED <<kind, isPiped, err, rawInput, inputCnt, rawOutput, panicked, wcnt, history>>
Client_SetNewConn ==
    /\ kind = "Client" /\ ~panicked
    /\ UNCHANGED <<threads, readers>>
    /\ conn < MaxConns
    /\ closed' = closed \cup {conn}
    /\ conn' = conn + 1
    /\ rpos' = 0
    /\ \E o \in ConnWrite(rawOutput, FALSE, FALSE) :
        /\ connOut' = Slice(rawOutput, 0, o.n)
        /\ broken' = (o.err = "errIO")
        /\ outputCnt' = o.n
        /\ ret' = Ret("SetNewConn", 0, <<>>, 0, o.err)
        /\ io' = <<ClCall, WrCall(rawOutput, o)>>
    /\ UNCHANGED <<kind, isPiped, err, rawInput, inputCnt, rawOutput, panicked, wcnt, history>>

\* ------------------------------------------------------------------- Next
Next ==
    \/ \E k \in 0..MaxReq : Server_Read(k)
    \/ \E m \in 0..MaxReq : Server_Write(m)
    \/ Server_Replay
    \/ Server_Pipe
    \/ Server_Close
    \/ \E k \in 0..MaxReq : Client_Read(k)
    \/ \E m \in 0..MaxReq : Client_Write(m)
    \/ Client_Replay
    \/ Client_Pipe
    \/ Client_Close
    \/ Client_SetNewConn

Spec == Init /\ [][Next]_vars

\* --------------------------------------------- two goroutines on one Server
\* A goroutine's call has returned
Return(t) == pc' = [pc EXCEPT ![t] = At("idle", 0, pc[t].left - 1)]
Goto(t, at, k) == pc' = [pc EXCEPT ![t] = At(at, k, pc[t].left)]
Idle(t) == pc[t].at = "idle" /\ pc[t].left > 0 /\ ~panicked

\* Server.Read up to the call of c.read: the short circuit, taken without the
\* lock, or on to c.mu.Lock() in read
T_Read(t, k) ==
    /\ Idle(t)
    /\ IF isPiped /\ Len(rawInput) = 0
       THEN ReadDirect(k) /\ Return(t)
       ELSE Goto(t, "read", k) /\ UNCHANGED <<wrapper, stream, ret, io, history>>
    /\ UNCHANGED <<mu, wcnt, readers>>

\* Server.Write up to the call of c.write
T_Write(t, m) ==
    /\ Idle(t)
    /\ wcnt + m <= MaxWritten
    /\ IF isPiped
       THEN WriteDirect(Chunk(m)) /\ Return(t) /\ wcnt' = wcnt + m
       ELSE /\ Goto(t, "write", m)
            /\ UNCHANGED <<wrapper, stream, ret, io, history, wcnt>>
    /\ UNCHANGED <<mu, readers>>

\* Server.Pipe is called
T_Pipe(t) ==
    /\ Idle(t)
    /\ Len(connOut) <= MaxOut
    /\ Goto(t, "pipe", 0)
    /\ UNCHANGED <<wrapper, stream, ret, io, history, wcnt, mu, readers>>

\* c.mu.Lock() in read, write and Pipe
T_Lock(t) ==
    /\ pc[t].at \in {"read", "write", "pipe"}
    /\ mu = 0
    /\ mu' = t
    /\ Goto(t, CASE pc[t].at = "read" -> "reading"
                 [] pc[t].at = "write" -> "writing"
                 [] pc[t].at = "pipe" -> "piping", pc[t].k)
    /\ UNCHANGED <<wrapper, stream, ret, io, history, wcnt, readers>>

\* The rest of read, write and Pipe, and the deferred c.mu.Unlock()
T_Locked(t) ==
    /\ pc[t].at \in {"reading", "writing", "piping"}
    /\ CASE pc[t].at = "reading" -> Server_read(pc[t].k) /\ UNCHANGED wcnt
         [] pc[t].at = "writing" ->
                Server_write(Chunk(pc[t].k)) /\ wcnt' = wcnt + pc[t].k
         [] pc[t].at = "piping" -> Server_PipeLocked /\ UNCHANGED wcnt
    /\ mu' = 0
    /\ Return(t)
    /\ UNCHANGED readers

\* Server.Replay, which takes no lock, up to "wipe buffers in the alternate
\* direction"
T_Replay(t) ==
    /\ Idle(t)
    /\ IF isPiped
       THEN ReplayRejected /\ Return(t)
       ELSE /\ rawOutput' = <<>>
            /\ h_written' = <<>>
            /\ Goto(t, "replay", 0)
            /\ UNCHANGED <<kind, isPiped, err, rawInput, inputCnt, outputCnt, panicked>>
            /\ UNCHANGED <<stream, ret, io, delivered, h_writes, h_pipeRest, h_pipePos>>
    /\ UNCHANGED <<mu, wcnt, readers>>

\* Server.Replay, "reset counters" to the return
T_ReplayReset(t) ==
    /\ pc[t].at = "replay"
    /\ inputCnt' = 0
    /\ err' = (IF err = "errClosed" THEN "nil" ELSE err)
    /\ ret' = Ret("Replay", 0, <<>>, 0, "nil")
    /\ io' = <<>>
    /\ delivered' = <<>>
    /\ Return(t)
    /\ UNCHANGED <<kind, isPiped, rawInput, rawOutput, outputCnt, panicked>>
    /\ UNCHANGED <<stream, h_written, h_writes, h_pipeRest, h_pipePos>>
    /\ UNCHANGED <<mu, wcnt, readers>>

InitThreads ==
    /\ kind = "Server"
    /\ NewWrapper
    /\ NoReaders

NextThreads ==
    \E t \in Threads :
        \/ \E k \in 1..MaxReq : T_Read(t, k)
        \/ \E m \in 1..MaxReq : T_Write(t, m)
        \/ T_Pipe(t)
        \/ T_Lock(t)
        \/ T_Locked(t)
        \/ T_Replay(t)
        \/ T_ReplayReset(t)

SpecThreads == InitThreads /\ [][NextThreads]_vars

\* ------------------------------------------------- forwardMultiReadSeeker
\* The readers are byte sources, [t |-> "src", data |-> bytes still to come],
\* bytes.Buffers, [t |-> "buf", data |-> unread bytes], or
\* forwardMultiReadSeekers themselves, [t |-> "mr", readers, pos].

RECURSIVE Sum(_)
Sum(lens) == IF lens = <<>> THEN 0 ELSE Head(lens) + Sum(Tail(lens))

\* The concatenation of a sequence of byte sequences
RECURSIVE Cat(_)
Cat(ss) == IF ss = <<>> THEN <<>> ELSE Head(ss) \o Cat(Tail(ss))

\* Sources of the given lengths; the byte at offset i of their concatenation
\* is Wire(i + 1).
Sources(lens) ==
    [i \in 1..Len(lens) |->
        [t |-> "src", data |-> WireBytes(Sum(SubSeq(lens, 1, i - 1)), lens[i])]]

\* func ForwardMultiReadSeeker(readers ...io.Reader)
ForwardMultiReadSeeker(rs) == [t |-> "mr", readers |-> rs, pos |-> 0]

\* src.Read(p), len(p) = k, on a source with bytes d still to come: at the end
\* (0, EOF); otherwise up to k bytes, and EOF may come with the last ones.
SrcRead(d, k) ==
    IF d = <<>>
    THEN {[item |-> [t |-> "src", data |-> d], n |-> 0, data |-> <<>>, err |-> "EOF"]}
    ELSE {[item |-> [t |-> "src", data |-> From(d, m)], n |-> m,
           data |-> Slice(d, 0, m), err |-> "nil"] : m \in 1..Min(k, Len(d))}
         \cup (IF Len(d) <= k
               THEN {[item |-> [t |-> "src", data |-> <<>>], n |-> Len(d),
                      data |-> d, err |-> "EOF"]}
               ELSE {})

\* (*bytes.Buffer).Read(p), len(p) = k, on a buffer with unread bytes d: as many
\* bytes as fit, EOF only when the buffer is empty
BufRead(d, k) ==
    IF d = <<>>
    THEN {[item |-> [t |-> "buf", data |-> d], n |-> 0, data |-> <<>>,
           err |-> IF k = 0 THEN "nil" ELSE "EOF"]}
    ELSE {[item |-> [t |-> "buf", data |-> From(d, Min(k, Len(d)))], n |-> Min(k, Len(d)),
           data |-> Slice(d, 0, Min(k, Len(d))), err |-> "nil"]}

\* Read's "Don't return EOF yet. More readers remain.": the error returned
\* with a result of the first reader, rs being the readers that remain
ReadErr_eof(e, rs) == e
ReadErr(e, rs) == IF e = "EOF" /\ Len(rs) > 0 THEN "nil" ELSE e

\* func (mr *forwardMultiReadSeeker) Read(p []byte), len(p) = k: the results
\* [item |-> mr afterwards, n, data |-> p[:n], err]
RECURSIVE MR_Read(_, _)
MR_Read(m, k) ==
    IF Len(m.readers) = 0
    THEN {[item |-> m, n |-> 0, data |-> <<>>, err |-> "EOF"]}
    ELSE IF Len(m.readers) = 1 /\ Head(m.readers).t = "mr"
    THEN MR_Read([m EXCEPT !.readers = Head(m.readers).readers], k)
    ELSE UNION {
        LET rs == IF o.err = "EOF" THEN Tail(m.readers)
                  ELSE <<o.item>> \o Tail(m.readers)
            m2 == [m EXCEPT !.readers = rs, !.pos = m.pos + o.n]
        IN  IF o.n > 0 \/ o.err # "EOF"
            THEN {[item |-> m2, n |-> o.n, data |-> o.data, err |-> ReadErr(o.err, rs)]}
            ELSE MR_Read(m2, k)
        : o \in CASE Head(m.readers).t = "mr" -> MR_Read(Head(m.readers), k)
                   [] Head(m.readers).t = "buf" -> BufRead(Head(m.readers).data, k)
                   [] OTHER -> SrcRead(Head(m.readers).data, k) }

\* Seek's loop "for tr := abs - mr.pos; tr > 0; tr -= bl": the results
\* [item |-> mr afterwards, err]
RECURSIVE MR_SeekLoop(_, _, _)
MR_SeekLoop(m, tr, bl) ==
    IF tr <= 0 THEN {[item |-> m, err |-> "nil"]}
    ELSE LET bl2 == Min(bl, tr) IN
         UNION { IF o.err # "nil" \/ o.n # bl2
                 THEN {[item |-> o.item, err |-> o.err]}
                 ELSE MR_SeekLoop(o.item, tr - bl2, bl2)
                 : o \in MR_Read(m, bl2) }

\* The absolute target of Seek(offset, whence), or the error of the switch
SeekTarget(pos, offset, whence) ==
    CASE whence = "SeekStart"   -> [abs |-> offset, err |-> "nil"]
      [] whence = "SeekCurrent" -> [abs |-> pos + offset, err |-> "nil"]
      [] whence = "SeekEnd"     -> [abs |-> 0, err |-> "errSeekEnd"]
      [] OTHER                  -> [abs |-> 0, err |-> "errWhence"]

\* func (mr *forwardMultiReadSeeker) Seek(offset int64, whence int): the
\* results [item |-> mr afterwards, n |-> position returned, err]
MR_Seek_anywhere(m, offset, whence) ==
    LET tg == SeekTarget(m.pos, offset, whence) IN
    IF tg.err # "nil" THEN {[item |-> m, n |-> 0, err |-> tg.err]}
    ELSE IF tg.abs < 0 THEN {[item |-> m, n |-> 0, err |-> "errNegative"]}
    ELSE {[item |-> o.item, n |-> o.item.pos, err |-> o.err]
            : o \in MR_SeekLoop(m, tg.abs - m.pos, BufLen)}
MR_Seek(m, offset, whence) ==
    LET tg == SeekTarget(m.pos, offset, whence) IN
    IF tg.err # "nil" THEN {[item |-> m, n |-> 0, err |-> tg.err]}
    ELSE IF tg.abs < 0 THEN {[item |-> m, n |-> 0, err |-> "errNegative"]}
    ELSE IF tg.abs < m.pos THEN {[item |-> m, n |-> 0, err |-> "errBackwards"]}
    ELSE {[item |-> o.item, n |-> o.item.pos, err |-> o.err]
            : o \in MR_SeekLoop(m, tg.abs - m.pos, BufLen)}

Whences == {"SeekStart", "SeekCurrent", "SeekEnd", "other"}

\* What a call on a reader was given and what it returned, with the history:
\* lens, the lengths of the sources at construction; chunks, what the Reads
\* returned, in order; calls, the number of calls made, and seeks, how many
\* of them were Seek or ReadAt.
Call(op, arg, whence, pos0, n, data, e, chunks) ==
    [op |-> op, arg |-> arg, whence |-> whence, pos0 |-> pos0,
     n |-> n, data |-> data, err |-> e,
     lens |-> out.lens, chunks |-> chunks, calls |-> out.calls + 1,
     seeks |-> IF op \in {"Seek", "ReadAt"} THEN out.seeks + 1 ELSE out.seeks]

\* The lengths of the sources: empty, one byte, or MaxSrcLen bytes
SrcLens == {0, 1, MaxSrcLen}

\* A forwardMultiReadSeeker over up to MaxSrcs sources, the first nest of them
\* (none, the first, or all) given as one nested forwardMultiReadSeeker.
InitMR ==
    /\ kind = "none"
    /\ NewWrapper
    /\ rd = NoReader
    /\ tee = NoTee
    /\ \E n \in 0..MaxSrcs : \E lens \in [1..n -> SrcLens] : \E nest \in {0, Min(1, n), n} :
        /\ mr = ForwardMultiReadSeeker(
                  IF nest = 0 THEN Sources(lens)
                  ELSE <<ForwardMultiReadSeeker(SubSeq(Sources(lens), 1, nest))>>
                         \o SubSeq(Sources(lens), nest + 1, n))
        /\ out = [op |-> "New", arg |-> nest, whence |-> "", pos0 |-> 0, n |-> 0,
                  data |-> <<>>, err |-> "nil",
                  lens |-> lens, chunks |-> <<>>, calls |-> 0, seeks |-> 0]

\* A caller reads from mr with a buffer of k bytes
MRead(k) ==
    /\ out.calls < MaxCalls
    /\ \E o \in MR_Read(mr, k) :
        /\ mr' = o.item
        /\ out' = Call("Read", k, "", mr.pos, o.n, o.data, o.err,
                       IF o.n > 0 THEN Append(out.chunks, o.data) ELSE out.chunks)
    /\ UNCHANGED <<wrapper, stream, ret, io, wcnt, history, threads, rd, tee>>

\* A caller seeks on mr
MSeek(offset, whence) ==
    /\ out.calls < MaxCalls /\ out.seeks < MaxSeeks
    /\ \E o \in MR_Seek(mr, offset, whence) :
        /\ mr' = o.item
        /\ out' = Call("Seek", offset, whence, mr.pos, o.n, <<>>, o.err, out.chunks)
    /\ UNCHANGED <<wrapper, stream, ret, io, wcnt, history, threads, rd, tee>>

NextMR ==
    \/ \E k \in 1..MaxReq : MRead(k)
    \/ \E offset \in (0 - 1)..MaxSeek : \E whence \in Whences : MSeek(offset, whence)

SpecMR == InitMR /\ [][NextMR]_vars

\* ------------------------------------------------- teeReadSeeker and Reader
\* rd holds a Reader c with what it refers to: r, the bytes c.r has still to
\* produce; buf, the contents of c.buf; r_tee, the pos field of c.r_tee (a
\* teeReadSeeker from c.r to c.buf); pos; pipe; r_mr.  After Pipe the source
\* and the buffer are read through r_mr only, and their state is kept there.

\* func (t *teeReadSeeker) Read(p []byte), len(p) = k, from the source of c to
\* c.buf, whose Write does not fail: the results [item |-> c afterwards, n, err]
Tee_Read(c, k) ==
    {[item |-> [c EXCEPT !.r = o.item.data, !.buf = c.buf \o o.data],
      n |-> o.n, err |-> o.err] : o \in SrcRead(c.r, k)}

\* io.CopyN(io.Discard, t, want): Read on t until want bytes have come or the
\* source ends; the results [item, n |-> bytes copied, err]
RECURSIVE Tee_CopyN(_, _)
Tee_CopyN(c, want) ==
    IF want <= 0 THEN {[item |-> c, n |-> 0, err |-> "nil"]}
    ELSE UNION {
        IF o.n = want THEN {[item |-> o.item, n |-> o.n, err |-> "nil"]}
        ELSE IF o.err = "EOF" THEN {[item |-> o.item, n |-> o.n, err |-> "EOF"]}
        ELSE {[item |-> q.item, n |-> o.n + q.n, err |-> q.err]
                : q \in Tee_CopyN(o.item, want - o.n)}
        : o \in Tee_Read(c, want) }

\* func (mr *teeReadSeeker) Seek(offset int64, whence int) on c.r_tee: the
\* results [item, n |-> position returned, err]
Tee_Seek(c, offset, whence) ==
    LET tg == SeekTarget(c.r_tee, offset, whence) IN
    IF tg.err # "nil" THEN {[item |-> c, n |-> 0, err |-> tg.err]}
    ELSE IF tg.abs < 0 THEN {[item |-> c, n |-> 0, err |-> "errNegative"]}
    ELSE IF tg.abs < c.r_tee THEN {[item |-> c, n |-> 0, err |-> "errBackwards"]}
    ELSE {[item |-> [o.item EXCEPT !.r_tee = c.r_tee + o.n],
           n |-> c.r_tee + o.n, err |-> o.err]
            : o \in Tee_CopyN(c, tg.abs - c.r_tee)}

\* func (c *Reader) seek(offset int64, whence int): the results
\* [item |-> c afterwards, n, err]
Reader_seek_unfilled(c, offset, whence) ==
    LET tg == SeekTarget(c.pos, offset, whence) IN
    IF tg.err # "nil" THEN {[item |-> c, n |-> 0, err |-> tg.err]}
    ELSE IF tg.abs < 0 THEN {[item |-> c, n |-> 0, err |-> "errNegative"]}
    ELSE {[item |-> [c EXCEPT !.pos = tg.abs], n |-> tg.abs, err |-> "nil"]}
Reader_seek(c, offset, whence) ==
    LET tg == SeekTarget(c.pos, offset, whence) IN
    IF tg.err # "nil" THEN {[item |-> c, n |-> 0, err |-> tg.err]}
    ELSE IF tg.abs < 0 THEN {[item |-> c, n |-> 0, err |-> "errNegative"]}
    ELSE IF tg.abs > Len(c.buf)
    THEN {[item |-> [o.item EXCEPT !.pos = o.n], n |-> o.n, err |-> o.err]
            : o \in Tee_Seek(c, tg.abs, "SeekStart")}
    ELSE {[item |-> [c EXCEPT !.pos = tg.abs], n |-> tg.abs, err |-> "nil"]}

\* func (c *Reader) Seek(offset int64, whence int)
Reader_Seek(c, offset, whence) ==
    IF c.pipe
    THEN {[item |-> [c EXCEPT !.r_mr = o.item], n |-> o.n, err |-> o.err]
            : o \in MR_Seek(c.r_mr, offset, whence)}
    ELSE Reader_seek(c, offset, whence)

\* ReadAt's "Read off the slice": copy(p, bufBytes[off:]), len(p) = k
ReadOff_start(buf, off, k) == Slice(buf, 0, Min(Len(buf), k))
ReadOff(buf, off, k) == Slice(buf, off, Min(Len(buf), off + k))

\* func (c *Reader) ReadAt(p []byte, off int64), len(p) = k, off >= 0: the
\* results [item, n, data |-> p[:n], err]
Reader_ReadAt_inPlace(c, k, off) ==
    {IF s.n <= off
     THEN [item |-> [s.item EXCEPT !.pos = c.pos], n |-> 0, data |-> <<>>, err |-> s.err]
     ELSE [item |-> [s.item EXCEPT !.pos = c.pos],
           n |-> Len(ReadOff(s.item.buf, off, k)),
           data |-> ReadOff(s.item.buf, off, k), err |-> s.err]
     : s \in Reader_seek(c, off + k, "SeekStart")}
Reader_ReadAt(c, k, off) ==
    IF c.pipe
    THEN IF off < c.pos
         THEN {[item |-> c, n |-> 0, data |-> <<>>, err |-> "errPiped"]}
         ELSE UNION {
             IF s.n # off \/ s.err # "nil"
             THEN {[item |-> [c EXCEPT !.r_mr = s.item], n |-> 0, data |-> <<>>,
                    err |-> s.err]}
             ELSE {[item |-> [c EXCEPT !.r_mr = o.item], n |-> o.n, data |-> o.data,
                    err |-> o.err] : o \in MR_Read(s.item, k)}
             : s \in MR_Seek(c.r_mr, off, "SeekStart") }
    ELSE {IF s.n <= off
          THEN [item |-> s.item, n |-> 0, data |-> <<>>, err |-> s.err]
          ELSE [item |-> s.item, n |-> Len(ReadOff(s.item.buf, off, k)),
                data |-> ReadOff(s.item.buf, off, k), err |-> s.err]
          : s \in Reader_seek(c, off + k, "SeekStart")}

\* func (c *Reader) Read(b []byte), len(b) = k
Reader_Read(c, k) ==
    IF c.pipe
    THEN {[item |-> [c EXCEPT !.r_mr = o.item], n |-> o.n, data |-> o.data,
           err |-> o.err] : o \in MR_Read(c.r_mr, k)}
    ELSE Reader_ReadAt(c, k, c.pos)

\* func (c *Reader) Pipe(): the Readers c can be afterwards
Reader_Pipe_unseeked(c) ==
    IF c.pipe THEN {c}
    ELSE {[c EXCEPT !.pipe = TRUE,
                    !.r_mr = ForwardMultiReadSeeker(<<[t |-> "buf", data |-> c.buf],
                                                      [t |-> "src", data |-> c.r]>>)]}
Reader_Pipe(c) ==
    IF c.pipe THEN {c}
    ELSE {[c EXCEPT !.pipe = TRUE, !.r_mr = o.item]
            : o \in MR_Seek(ForwardMultiReadSeeker(
                              <<[t |-> "buf", data |-> c.buf],
                                [t |-> "src", data |-> c.r]>>),
                            c.pos, "SeekStart")}

\* func NewReader(r io.Reader), r a source of up to MaxSrcLen + 1 bytes
InitReader ==
    /\ kind = "none"
    /\ NewWrapper
    /\ mr = [t |-> "mr", readers |-> <<>>, pos |-> 0]
    /\ tee = NoTee
    /\ \E n \in 0..(MaxSrcLen + 1) :
        /\ rd = [NoReader EXCEPT !.r = WireBytes(0, n)]
        /\ out = [op |-> "New", arg |-> 0, whence |-> "", pos0 |-> 0, n |-> 0,
                  data |-> <<>>, err |-> "nil",
                  lens |-> <<n>>, chunks |-> <<>>, calls |-> 0, seeks |-> 0]

\* A caller reads from the Reader with a buffer of k bytes
RRead(k) ==
    /\ out.calls < MaxReaderCalls
    /\ \E o \in Reader_Read(rd, k) :
        /\ rd' = o.item
        /\ out' = Call("Read", k, "", rd.pos, o.n, o.data, o.err,
                       Append(out.chunks, o.data))
    /\ UNCHANGED <<wrapper, stream, ret, io, wcnt, history, threads, mr, tee>>

\* A caller reads k bytes at offset off
RReadAt(k, off) ==
    /\ out.calls < MaxReaderCalls /\ out.seeks < MaxAts
    /\ \E o \in Reader_ReadAt(rd, k, off) :
        /\ rd' = o.item
        /\ out' = Call("ReadAt", k, "", off, o.n, o.data, o.err, out.chunks)
    /\ UNCHANGED <<wrapper, stream, ret, io, wcnt, history, threads, mr, tee>>

\* A caller seeks
RSeek(offset, whence) ==
    /\ out.calls < MaxReaderCalls /\ out.seeks < MaxAts
    /\ \E o \in Reader_Seek(rd, offset, whence) :
        /\ rd' = o.item
        /\ out' = Call("Seek", offset, whence, rd.pos, o.n, <<>>, o.err, out.chunks)
    /\ UNCHANGED <<wrapper, stream, ret, io, wcnt, history, threads, mr, tee>>

\* A caller commits
RPipe ==
    /\ out.calls < MaxReaderCalls
    /\ \E c \in Reader_Pipe(rd) :
        /\ rd' = c
        /\ out' = Call("Pipe", 0, "", rd.pos, 0, <<>>, "nil", out.chunks)
    /\ UNCHANGED <<wrapper, stream, ret, io, wcnt, history, threads, mr, tee>>

NextReader ==
    \/ \E k \in 0..MaxRead : RRead(k)
    \/ \E k \in 1..MaxRead : \E off \in 0..MaxSeek : RReadAt(k, off)
    \/ \E offset \in (0 - 1)..MaxSeek : \E whence \in Whences : RSeek(offset, whence)
    \/ RPipe

SpecReader == InitReader /\ [][NextReader]_vars

\* ------------------------------------------------------ teeReadSeeker alone
\* tee holds a teeReadSeeker t with what it refers to: r, the bytes t.r has
\* still to produce; w, the bytes t.w has accepted; pos; and werr, whether t.w
\* is a writer whose Write can fail.

\* t.w.Write(b): all of b accepted, or, on a writer that can fail, fewer bytes
\* and an error; the results [w |-> bytes accepted so far, n, err]
SinkWrite(t, b) ==
    {[w |-> t.w \o b, n |-> Len(b), err |-> "nil"]}
    \cup (IF t.werr
          THEN {[w |-> t.w \o Slice(b, 0, m), n |-> m, err |-> "errSink"]
                  : m \in 0..(Len(b) - 1)}
          ELSE {})

\* func (t *teeReadSeeker) Read(p []byte), len(p) = k: the results
\* [item |-> t afterwards, n, data |-> p[:n], err]
teeReadSeeker_Read_unmirrored(t, k) ==
    {[item |-> [t EXCEPT !.r = o.item.data], n |-> o.n, data |-> o.data,
      err |-> o.err] : o \in SrcRead(t.r, k)}
teeReadSeeker_Read(t, k) ==
    UNION {
        IF o.n > 0
        THEN {[item |-> [t EXCEPT !.r = o.item.data, !.w = s.w],
               n |-> IF s.err # "nil" THEN s.n ELSE o.n,
               data |-> Slice(o.data, 0, IF s.err # "nil" THEN s.n ELSE o.n),
               err |-> IF s.err # "nil" THEN s.err ELSE o.err]
                : s \in SinkWrite(t, o.data)}
        ELSE {[item |-> [t EXCEPT !.r = o.item.data], n |-> 0, data |-> <<>>,
               err |-> o.err]}
        : o \in SrcRead(t.r, k) }

\* io.CopyN(io.Discard, t, want): Read on t, never asking for more than is
\* still wanted, until want bytes have come, the source ends or a Read fails;
\* the results [item, n |-> bytes copied, err]
RECURSIVE CopyN(_, _)
CopyN(t, want) ==
    IF want <= 0 THEN {[item |-> t, n |-> 0, err |-> "nil"]}
    ELSE UNION {
        IF o.err = "EOF"
        THEN {[item |-> o.item, n |-> o.n,
               err |-> IF o.n = want THEN "nil" ELSE "EOF"]}
        ELSE IF o.err # "nil"
        THEN {[item |-> o.item, n |-> o.n, err |-> o.err]}
        ELSE {[item |-> q.item, n |-> o.n + q.n, err |-> q.err]
                : q \in CopyN(o.item, want - o.n)}
        : o \in teeReadSeeker_Read(t, want) }

\* func (mr *teeReadSeeker) Seek(offset int64, whence int): the results
\* [item |-> t afterwards, n |-> position returned, err]
teeReadSeeker_Seek(t, offset, whence) ==
    LET tg == SeekTarget(t.pos, offset, whence) IN
    IF tg.err # "nil" THEN {[item |-> t, n |-> 0, err |-> tg.err]}
    ELSE IF tg.abs < 0 THEN {[item |-> t, n |-> 0, err |-> "errNegative"]}
    ELSE IF tg.abs < t.pos THEN {[item |-> t, n |-> 0, err |-> "errBackwards"]}
    ELSE {[item |-> [o.item EXCEPT !.pos = t.pos + o.n],
           n |-> t.pos + o.n, err |-> o.err]
            : o \in CopyN(t, tg.abs - t.pos)}

\* func TeeReadSeeker(r io.Reader, w io.Writer), r a source of up to
\* MaxSrcLen + 1 bytes, w an empty sink that never fails or one that can
InitTee ==
    /\ kind = "none"
    /\ NewWrapper
    /\ mr = [t |-> "mr", readers |-> <<>>, pos |-> 0]
    /\ rd = NoReader
    /\ \E n \in 0..(MaxSrcLen + 1) : \E f \in BOOLEAN :
        /\ tee = [NoTee EXCEPT !.r = WireBytes(0, n), !.werr = f]
        /\ out = [op |-> "New", arg |-> 0, whence |-> "", pos0 |-> 0, n |-> 0,
                  data |-> <<>>, err |-> "nil",
                  lens |-> <<n>>, chunks |-> <<>>, calls |-> 0, seeks |-> 0]

\* A caller reads from the teeReadSeeker with a buffer of k bytes
TRead(k) ==
    /\ out.calls < MaxReaderCalls
    /\ \E o \in teeReadSeeker_Read(tee, k) :
        /\ tee' = o.item
        /\ out' = Call("Read", k, "", tee.pos, o.n, o.data, o.err,
                       Append(out.chunks, o.data))
    /\ UNCHANGED <<wrapper, stream, ret, io, wcnt, history, threads, mr, rd>>

\* A caller seeks on the teeReadSeeker
TSeek(offset, whence) ==
    /\ out.calls < MaxReaderCalls
    /\ \E o \in teeReadSeeker_Seek(tee, offset, whence) :
        /\ tee' = o.item
        /\ out' = Call("Seek", offset, whence, tee.pos, o.n, <<>>, o.err, out.chunks)
    /\ UNCHANGED <<wrapper, stream, ret, io, wcnt, history, threads, mr, rd>>

NextTee ==
    \/ \E k \in 1..MaxRead : TRead(k)
    \/ \E offset \in (0 - 1)..MaxSeek : \E whence \in Whences : TSeek(offset, whence)

SpecTee == InitTee /\ [][NextTee]_vars

\* ------------------------------------------------------------------ claims
HasCall(c) == \E i \in 1..Len(io) : io[i].call = c

\* C1: while a Server wrapper is Detecting and its stream has not failed, the
\* bytes delivered since the last Replay (or since creation) are the first
\* inputCnt bytes the stream produced, in order, and the retained buffer is
\* everything the stream produced: a Replay restarts delivery at byte 0 and
\* the retained prefix comes before any new byte, for every chunking.
C1_ReplayPrefix ==
    (kind = "Server" /\ ~isPiped /\ ~broken) =>
        /\ rawInput = WireBytes(0, rpos)
        /\ delivered = WireBytes(0, inputCnt)
        /\ inputCnt <= Len(rawInput)

\* A Read after a Replay returned one retained byte and one newly read byte.
C1_Witness ==
    /\ kind = "Server" /\ ~isPiped /\ ~broken
    /\ ret.op = "Read" /\ ret.n = 2
    /\ Len(io) = 1 /\ io[1].n = 1
    /\ delivered = <<Wire(1), Wire(2)>>

\* C2: when Pipe runs on a Detecting Server wrapper and the stream accepts the
\* flush, the stream has received exactly the bytes of the Writes accepted
\* since the last Replay, in order, once each.
C2_WritesThenPipe ==
    [][ (kind = "Server" /\ ~isPiped /\ isPiped' /\ ret'.err = "nil")
            => connOut' = h_written ]_vars

\* Two one-byte Writes, then Pipe: the stream holds both bytes in order.
C2_Witness ==
    /\ kind = "Server" /\ isPiped /\ ret.op = "Pipe" /\ ret.err = "nil"
    /\ h_writes = 2 /\ h_written = <<1, 2>>
    /\ connOut = <<1, 2>>

\* C3: while a Server wrapper is Detecting its stream has received no byte and
\* no Write call; Close on a Detecting wrapper (Server or Client) makes no call
\* on the stream and records errClosed; and a method of a Detecting wrapper
\* calls Close on the stream only when it fails with errMaxBuffer (SetNewConn,
\* which replaces the stream, aside).
C3_DetectingSilent ==
    /\ (kind = "Server" /\ ~isPiped) => (connOut = <<>> /\ ~HasCall("Write"))
    /\ (~isPiped /\ ret.op = "Close") =>
            (io = <<>> /\ err = "errClosed" /\ ret.err = "nil")
    /\ (~isPiped /\ ret.op # "SetNewConn" /\ HasCall("Close")) =>
            ret.err = "errMaxBuffer"

\* Close on a Detecting Server wrapper that holds buffered output.
C3_Witness ==
    /\ kind = "Server" /\ ~isPiped /\ ret.op = "Close"
    /\ rawOutput # <<>> /\ connOut = <<>> /\ ~IsClosed

\* C4: on a piped Server wrapper, the bytes delivered since Pipe followed by
\* what is still buffered are the buffer from the cursor on as Pipe found it
\* followed by the bytes the stream produced since: buffered bytes first, then
\* direct reads, nothing lost, repeated or reordered.
C4_AcrossPipe ==
    (kind = "Server" /\ isPiped) =>
        delivered \o rawInput = h_pipeRest \o WireBytes(h_pipePos, rpos - h_pipePos)

\* Replay, then Pipe with two bytes retained; a Read of two bytes returned the
\* last retained byte and one byte read directly.
C4_Witness ==
    /\ kind = "Server" /\ isPiped
    /\ h_pipeRest = <<Wire(1), Wire(2)>>
    /\ ret.op = "Read" /\ ret.n = 2 /\ ret.err = "nil"
    /\ Len(io) = 1 /\ io[1].n = 1
    /\ delivered = <<Wire(1), Wire(2), Wire(3)>>

\* C5: on a piped wrapper with no retained input, Read and Write make exactly
\* one call on the stream, the same call with the same buffer, return its
\* result and leave every field of the wrapper as it was.
C5_PipedPassThrough ==
    [][ (isPiped /\ Len(rawInput) = 0 /\ ret'.op \in {"Read", "Write"}) =>
            /\ Len(io') = 1
            /\ io'[1].call = ret'.op
            /\ io'[1].len = ret'.len
            /\ io'[1].data = ret'.data
            /\ io'[1].n = ret'.n
            /\ io'[1].err = ret'.err
            /\ UNCHANGED wrapper ]_vars

\* A piped Server wrapper that keeps detection-phase output passed a Write on.
C5_Witness ==
    /\ kind = "Server" /\ isPiped /\ Len(rawInput) = 0
    /\ ret.op = "Write" /\ ret.n = 1 /\ Len(io) = 1
    /\ rawOutput # <<>>

\* C6 (as claimed): Pipe on a piped wrapper sends no byte to the stream, ends
\* normally and leaves mode, buffers and counters as they were.
C6_PipeIdempotent ==
    [][ (isPiped /\ ret'.op = "Pipe") =>
            /\ connOut' = connOut
            /\ ~panicked'
            /\ UNCHANGED <<isPiped, rawInput, inputCnt, rawOutput, outputCnt>> ]_vars

\* The reads and writes C7 is about, seen from the state before the call.
ReadPast(limit) ==
    kind = "Server" /\ ~isPiped /\ ret'.op = "Read" /\ inputCnt + ret'.len > limit
WritePast(limit) ==
    ~isPiped /\ ret'.op = "Write" /\ Len(rawOutput) + ret'.len > limit
Refused ==
    /\ ret'.err = "errMaxBuffer" /\ ret'.n = 0
    /\ err' = "errMaxBuffer"
    /\ conn \in closed' /\ HasCall("Close")'
    /\ UNCHANGED buffers

\* C7 (as claimed): every Detecting-mode Server Read past MaxBuffer and every
\* Detecting-mode Write past MaxBuffer is refused with errMaxBuffer.
C7_LimitRefused ==
    [][ (ReadPast(MaxBuffer) \/ WritePast(MaxBuffer)) => Refused ]_vars

\* C7 (amended): the Read is refused with errMaxBuffer when no output is
\* buffered (with output buffered it fails with errHasWriten instead); the
\* Write always; and a request that reaches MaxBuffer exactly is not refused:
\* the Write is appended to rawOutput.
C7_LimitRefusedNoOutput ==
    [][ /\ ((ReadPast(MaxBuffer) /\ Len(rawOutput) = 0) \/ WritePast(MaxBuffer))
            => Refused
        /\ (ReadPast(MaxBuffer) /\ Len(rawOutput) > 0)
            => (ret'.err = "errHasWriten" /\ ~HasCall("Close")')
        /\ (~isPiped /\ ret'.op = "Write" /\ ~WritePast(MaxBuffer))
            => (ret'.err # "errMaxBuffer" /\ rawOutput' = rawOutput \o ret'.data)
        /\ (kind = "Server" /\ ~isPiped /\ ret'.op = "Read" /\ ~ReadPast(MaxBuffer)
              /\ Len(rawOutput) = 0)
            => ret'.err # "errMaxBuffer" ]_vars

\* A Read that asked for one byte more than MaxBuffer allows, with bytes
\* already delivered, was refused and the stream closed.
C7_Witness ==
    /\ kind = "Server" /\ ~isPiped
    /\ ret.op = "Read" /\ ret.err = "errMaxBuffer" /\ ret.n = 0
    /\ inputCnt > 0 /\ inputCnt + ret.len = MaxBuffer + 1
    /\ IsClosed

\* C8 (as claimed): with a fault recorded, a Detecting Server wrapper fails
\* every Read and Write (of at least one byte) with that fault, makes no call
\* on the stream and leaves its buffers alone.
C8_StickyFault ==
    [][ (kind = "Server" /\ ~isPiped
           /\ err \in {"errMaxBuffer", "errHasWriten", "errClosed"}
           /\ ret'.op \in {"Read", "Write"} /\ ret'.len > 0) =>
            /\ ret'.err = err /\ ret'.n = 0
            /\ io' = <<>>
            /\ UNCHANGED buffers ]_vars

\* C9 (as claimed): on a Detecting Server wrapper no Read succeeds with bytes
\* once some Write has been accepted.
C9_NoReadAfterWrite ==
    ~(kind = "Server" /\ ~isPiped /\ h_writes > 0
        /\ ret.op = "Read" /\ ret.err = "nil" /\ ret.n > 0)

\* C9 (amended): a Read on a Detecting Server wrapper that has accepted written
\* bytes since the last Replay fails with errHasWriten, returns 0 bytes, makes
\* no call on the stream and leaves cursor and buffers as they were.
C9_ReadWhileOutputBuffered ==
    [][ (kind = "Server" /\ ~isPiped /\ Len(h_written) > 0 /\ ret'.op = "Read") =>
            /\ ret'.err = "errHasWriten" /\ ret'.n = 0
            /\ err' = "errHasWriten"
            /\ io' = <<>> /\ rpos' = rpos
            /\ UNCHANGED buffers ]_vars

\* After Replay and a Write, a Read was refused although unread bytes are
\* retained.
C9_Witness ==
    /\ kind = "Server" /\ ~isPiped
    /\ ret.op = "Read" /\ ret.len > 0 /\ ret.err = "errHasWriten"
    /\ inputCnt < Len(rawInput) /\ Len(rawOutput) > 0

\* C10 (as claimed): a Read or Write that failed with errMaxBuffer or with
\* errHasWriten has closed the stream.
C10_FaultCloses ==
    (ret.op \in {"Read", "Write"} /\ ret.err \in {"errMaxBuffer", "errHasWriten"})
        => IsClosed

\* C10 (amended): a Read or Write that failed with errMaxBuffer has called
\* Close on the stream, which is closed when the call returns; a Read that
\* failed with errHasWriten has made no call on the stream.
C10_LimitCloses ==
    /\ (ret.op \in {"Read", "Write"} /\ ret.err = "errMaxBuffer")
            => (IsClosed /\ Len(io) = 1 /\ HasCall("Close"))
    /\ (ret.op = "Read" /\ ret.err = "errHasWriten") => io = <<>>

\* A Client Write past the limit closed a stream that had accepted bytes.
C10_Witness ==
    /\ kind = "Client" /\ ret.op = "Write" /\ ret.err = "errMaxBuffer"
    /\ IsClosed /\ connOut # <<>>

\* C11: in every state of a Server or Client wrapper the cursor lies within the
\* input buffer and neither buffer is longer than MaxBuffer:
\* 0 <= inputCnt <= len(rawInput) <= MaxBuffer and len(rawOutput) <= MaxBuffer.
C11_BufferBounds ==
    /\ 0 <= inputCnt /\ inputCnt <= Len(rawInput)
    /\ Len(rawInput) <= MaxBuffer
    /\ Len(rawOutput) <= MaxBuffer

\* Both buffers of a Detecting Server wrapper are full, the cursor is at the
\* end, and a further Write was refused.
C11_Witness ==
    /\ kind = "Server" /\ ~isPiped
    /\ inputCnt = MaxBuffer /\ Len(rawInput) = MaxBuffer
    /\ Len(rawOutput) = MaxBuffer
    /\ ret.op = "Write" /\ ret.len > 0 /\ ret.err = "errMaxBuffer"

\* C12: no step takes a piped wrapper back to Detecting, and Replay on a piped
\* wrapper returns errAlreadyPipe, makes no call on the stream and leaves every
\* field of the wrapper and the stream as it was.
C12_ModeMonotonic ==
    [][ /\ isPiped => isPiped'
        /\ (isPiped /\ ret'.op = "Replay") =>
              /\ ret'.err = "errAlreadyPipe"
              /\ io' = <<>>
              /\ UNCHANGED <<wrapper, stream>> ]_vars

\* Replay was rejected on a piped Server wrapper that still holds retained
\* input and detection-phase output.
C12_Witness ==
    /\ kind = "Server" /\ isPiped
    /\ ret.op = "Replay" /\ ret.err = "errAlreadyPipe"
    /\ rawInput # <<>> /\ rawOutput # <<>>

\* C13: SetNewConn on a Detecting Client wrapper closes the stream in use,
\* adopts the new one and makes one Write on it whose buffer is the
\* concatenation of the Detecting-mode Writes; what the new stream has
\* received is the accepted prefix of those bytes and nothing else, and
\* outputCnt is the number of bytes it accepted.
C13_SetNewConnResends ==
    [][ (kind = "Client" /\ ~isPiped /\ ret'.op = "SetNewConn") =>
            /\ conn \in closed' /\ conn' # conn /\ conn' \notin closed'
            /\ Len(io') = 2
            /\ io'[1].call = "Close"
            /\ io'[2].call = "Write" /\ io'[2].data = h_written
            /\ connOut' = Slice(h_written, 0, io'[2].n)
            /\ outputCnt' = io'[2].n
            /\ rawOutput' = rawOutput ]_vars

\* Two probe bytes written to the first stream were sent again, whole and in
\* order, over the new stream.
C13_Witness ==
    /\ kind = "Client" /\ ~isPiped /\ conn = 1
    /\ ret.op = "SetNewConn" /\ ret.err = "nil"
    /\ h_written = <<1, 2>> /\ connOut = <<1, 2>> /\ outputCnt = 2

\* C14 (as claimed): Pipe on a Detecting Client wrapper ends normally, writes
\* rawOutput[outputCnt:] to the stream when outputCnt < len(rawOutput) and
\* makes no call on the stream otherwise.
C14_PipeFlushesUnsent ==
    [][ (kind = "Client" /\ ~isPiped /\ ret'.op = "Pipe") =>
            /\ ~panicked'
            /\ (outputCnt < Len(rawOutput)) =>
                  (Len(io') = 1 /\ io'[1].call = "Write"
                     /\ io'[1].data = From(rawOutput, outputCnt))
            /\ (outputCnt >= Len(rawOutput)) => io' = <<>> ]_vars

\* C15 (as claimed): a Detecting-mode Client Write keeps outputCnt within
\* rawOutput and rawOutput[:outputCnt] equal to what the stream has accepted.
C15_SentPrefix ==
    [][ (kind = "Client" /\ ~isPiped /\ ret'.op = "Write"
           /\ outputCnt <= Len(rawOutput)
           /\ Slice(rawOutput, 0, outputCnt) = connOut) =>
            /\ 0 <= outputCnt' /\ outputCnt' <= Len(rawOutput')
            /\ Slice(rawOutput', 0, outputCnt') = connOut' ]_vars

\* C16 (as claimed): while one goroutine is inside the locked body of a
\* Detecting-mode read or write, or inside Pipe, no other goroutine is in the
\* middle of Replay, between discarding the output buffer and resetting the
\* cursor.
C16_ReplayExcluded ==
    \A t, u \in Threads :
        ~ /\ t # u
          /\ mu = t
          /\ \/ pc[t].at \in {"reading", "writing"} /\ ~isPiped
             \/ pc[t].at = "piping"
          /\ pc[u].at = "replay"

\* C17 (as claimed): no step of a piped wrapper changes a buffer field.
C17_PipedBuffersInert ==
    [][ isPiped => UNCHANGED buffers ]_vars

\* C17 (amended): on a piped wrapper Read, Write, Replay and Close leave the
\* cursor, the output buffer and the output counter alone and change the input
\* buffer only when a Read removes from its front the bytes it delivers, so an
\* empty input buffer stays empty; SetNewConn and Pipe leave both buffers and
\* the cursor alone (on a Client they rewrite the output counter).
C17_PipedDrainedInert ==
    [][ /\ (isPiped /\ ret'.op \notin {"SetNewConn", "Pipe"}) =>
              /\ UNCHANGED <<inputCnt, rawOutput, outputCnt>>
              /\ \/ rawInput' = rawInput
                 \/ /\ ret'.op = "Read" /\ Len(rawInput) > 0
                    /\ rawInput' = From(rawInput, Min(ret'.len, Len(rawInput)))
        /\ (isPiped /\ ret'.op \in {"SetNewConn", "Pipe"}) =>
              /\ UNCHANGED <<rawInput, inputCnt, rawOutput>>
              /\ kind = "Server" => UNCHANGED outputCnt ]_vars

\* A piped Server wrapper that had retained input and keeps detection-phase
\* output read bytes straight from the stream.
C17_Witness ==
    /\ kind = "Server" /\ isPiped /\ Len(rawInput) = 0
    /\ h_pipeRest # <<>> /\ rawOutput # <<>>
    /\ ret.op = "Read" /\ ret.n > 0 /\ Len(io) = 1 /\ io[1].n = ret.n

\* The number of bytes the sources held, and the offset at which source i
\* starts in their concatenation
Total == Sum(out.lens)
Start(i) == Sum(SubSeq(out.lens, 1, i - 1))

\* C18: every Read on a forwardMultiReadSeeker with a non-empty buffer returns
\* the bytes of the concatenation of the sources that follow the position, all
\* from one source; it returns at least one byte while bytes remain, skipping
\* exhausted and empty sources in the same call, and returns end-of-data only
\* when no sources remain; so Reads alone deliver the concatenation in order.
C18_ReadsConcatenation ==
    [][ (out'.op = "Read") =>
            /\ out'.n <= out'.arg
            /\ out'.data = WireBytes(mr.pos, out'.n)
            /\ mr'.pos = mr.pos + out'.n
            /\ out'.n > 0 => \E i \in 1..Len(out.lens) :
                                /\ Start(i) <= mr.pos
                                /\ mr.pos + out'.n <= Start(i) + out.lens[i]
            /\ mr.pos < Total => out'.n > 0
            /\ mr.pos = Total => (out'.n = 0 /\ out'.err = "EOF")
            /\ out'.err \in {"nil", "EOF"}
            /\ out'.err = "EOF" => (mr'.readers = <<>> /\ mr'.pos = Total)
            /\ out'.seeks = 0 => Cat(out'.chunks) = WireBytes(0, mr'.pos) ]_vars

\* Sources of 3, 0 and 3 bytes read through a 2-byte buffer gave chunks of 2,
\* 1, 2 and 1 bytes and then end-of-data.
C18_Witness ==
    /\ out.op = "Read" /\ out.lens = <<3, 0, 3>>
    /\ out.chunks = <<WireBytes(0, 2), WireBytes(2, 1), WireBytes(3, 2), WireBytes(5, 1)>>
    /\ out.arg = 2 /\ out.n = 0 /\ out.err = "EOF" /\ out.calls = 5

\* C19 (as claimed): a Seek on a forwardMultiReadSeeker to an absolute target
\* at or after the position and within the bytes the sources hold returns the
\* target and leaves the reader at the target, with no error when bytes remain
\* after it.
C19_SeekForward ==
    [][ (out'.op = "Seek" /\ out'.whence \in {"SeekStart", "SeekCurrent"}
           /\ SeekTarget(mr.pos, out'.arg, out'.whence).abs >= mr.pos
           /\ SeekTarget(mr.pos, out'.arg, out'.whence).abs <= Total) =>
            /\ out'.n = SeekTarget(mr.pos, out'.arg, out'.whence).abs
            /\ mr'.pos = out'.n
            /\ out'.n < Total => out'.err = "nil" ]_vars

\* C20: while a Reader is buffering, Read and ReadAt return the bytes the
\* source holds at the offsets read (from the cursor for Read), as many as were
\* asked for or as the source holds; Read moves the cursor past the bytes it
\* returned, so that consecutive Reads return consecutive bytes; and Seek from
\* the start or from the cursor, backward or forward, puts the cursor at the
\* target or at the end of the source.
C20_BufferedRandomAccess ==
    [][ (~rd.pipe /\ out'.op \in {"Read", "ReadAt", "Seek"}) =>
            /\ out'.op \in {"Read", "ReadAt"} =>
                  /\ out'.data = WireBytes(out'.pos0, out'.n)
                  /\ out'.n = Min(out'.arg, IF Total > out'.pos0
                                            THEN Total - out'.pos0 ELSE 0)
            /\ out'.op = "Read" =>
                  (out'.pos0 = rd.pos /\ rd'.pos = rd.pos + out'.n)
            /\ (out'.op = "Seek" /\ out'.whence \in {"SeekStart", "SeekCurrent"}
                  /\ SeekTarget(rd.pos, out'.arg, out'.whence).abs >= 0) =>
                  /\ rd'.pos = Min(SeekTarget(rd.pos, out'.arg, out'.whence).abs, Total)
                  /\ out'.n = rd'.pos ]_vars

\* Three bytes were read, the cursor was moved back to 0 and the same three
\* bytes were read again.
C20_Witness ==
    /\ ~rd.pipe /\ out.op = "Read" /\ out.arg = 3 /\ out.err = "nil"
    /\ out.calls = 3 /\ out.seeks = 1
    /\ out.chunks = <<WireBytes(0, 3), WireBytes(0, 3)>>

\* The bytes the readers of a forwardMultiReadSeeker have still to produce
RECURSIVE Unread(_)
Unread(m) ==
    IF m.readers = <<>> THEN <<>>
    ELSE (IF Head(m.readers).t = "mr" THEN Unread(Head(m.readers))
          ELSE Head(m.readers).data)
         \o Unread([m EXCEPT !.readers = Tail(m.readers)])

\* C21: Pipe on a Reader is one-way and idempotent: no call clears pipe and a
\* second Pipe changes nothing; the first Pipe leaves the live view at the
\* cursor, holding the bytes of the source from the cursor onward, each once;
\* and every Read after it returns the bytes that follow the position of the
\* live view, at least one while bytes remain, and end-of-data only after the
\* last.
C21_PipeContinues ==
    [][ /\ rd.pipe => rd'.pipe
        /\ (out'.op = "Pipe" /\ rd.pipe) => rd' = rd
        /\ (out'.op = "Pipe" /\ ~rd.pipe) =>
              /\ rd'.pipe /\ rd'.pos = rd.pos /\ rd'.r_mr.pos = rd.pos
              /\ Unread(rd'.r_mr) = WireBytes(rd.pos, Total - rd.pos)
        /\ (out'.op = "Read" /\ rd.pipe) =>
              /\ out'.data = WireBytes(rd.r_mr.pos, out'.n)
              /\ out'.n <= out'.arg
              /\ rd'.r_mr.pos = rd.r_mr.pos + out'.n
              /\ Unread(rd'.r_mr) = WireBytes(rd'.r_mr.pos, Total - rd'.r_mr.pos)
              /\ (out'.arg > 0 /\ rd.r_mr.pos < Total) => out'.n > 0
              /\ out'.err \in {"nil", "EOF"}
              /\ out'.err = "EOF" => rd'.r_mr.pos = Total ]_vars

\* Two bytes of three were read and the cursor moved back to 1 before Pipe; the
\* Read after Pipe returned the captured byte at offset 1.
C21_Witness ==
    /\ rd.pipe /\ out.op = "Read" /\ out.calls = 4 /\ out.seeks = 1
    /\ out.lens = <<3>> /\ Len(rd.buf) = 2
    /\ out.chunks = <<WireBytes(0, 2), WireBytes(1, 1)>>

\* C22: on a piped Reader a Seek or a ReadAt whose target lies before the
\* position of the live view, which every Read after Pipe advances, returns an
\* error and no bytes and changes nothing.
C22_NoBackwardAfterPipe ==
    [][ (rd.pipe
         /\ \/ /\ out'.op = "Seek" /\ out'.whence \in {"SeekStart", "SeekCurrent"}
               /\ SeekTarget(rd.r_mr.pos, out'.arg, out'.whence).abs < rd.r_mr.pos
            \/ out'.op = "ReadAt" /\ out'.pos0 < rd.r_mr.pos) =>
            /\ out'.err \notin {"nil", "EOF"}
            /\ out'.n = 0 /\ out'.data = <<>>
            /\ rd' = rd ]_vars

\* After Pipe a Read moved the live view past the cursor held at Pipe, and a
\* ReadAt at an offset between the two was refused.
C22_Witness ==
    /\ rd.pipe /\ out.op = "ReadAt" /\ out.err = "errBackwards" /\ out.n = 0
    /\ rd.pos <= out.pos0 /\ out.pos0 < rd.r_mr.pos

\* C23: while a Reader is buffering, the cursor lies within the captured
\* bytes, the position of the tee reader is the number of captured bytes, and
\* the captured bytes followed by those the source has still to produce are
\* the bytes of the source, each once.
C23_CursorWithinCapture ==
    ~rd.pipe =>
        /\ 0 <= rd.pos /\ rd.pos <= Len(rd.buf)
        /\ rd.r_tee = Len(rd.buf)
        /\ rd.buf \o rd.r = WireBytes(0, Total)

\* A Seek past the captured bytes pulled three bytes from the source into the
\* buffer and left the cursor at their end.
C23_Witness ==
    /\ ~rd.pipe /\ out.op = "Seek" /\ out.arg = 3 /\ out.pos0 = 0 /\ out.calls = 1
    /\ rd.pos = 3 /\ Len(rd.buf) = 3 /\ rd.r_tee = 3 /\ Len(rd.r) = 1

\* The number of bytes read from the source of the teeReadSeeker so far
Consumed == Total - Len(tee.r)

\* C24 (as claimed): a Seek on a teeReadSeeker from the end, with an invalid
\* whence, to a negative target or to a target before the bytes already read
\* returns an error, reads nothing from the source, writes nothing to the sink
\* and leaves the position unchanged.
C24_BadSeekRefused ==
    [][ (out'.op = "Seek"
         /\ \/ out'.whence \in {"SeekEnd", "other"}
            \/ SeekTarget(Consumed, out'.arg, out'.whence).abs < 0
            \/ SeekTarget(Consumed, out'.arg, out'.whence).abs < Consumed) =>
            /\ out'.err \notin {"nil", "EOF"}
            /\ tee' = tee ]_vars

\* C25 (as claimed): a Read on a teeReadSeeker that returns n > 0 bytes has
\* appended those n bytes to the sink; a failure of the sink is the error the
\* Read returns; and after every Read and Seek the sink holds the bytes read
\* from the source so far.
C25_SinkHoldsConsumed ==
    [][ (out'.op \in {"Read", "Seek"}) =>
            /\ (out'.op = "Read" /\ out'.n > 0) => tee'.w = tee.w \o out'.data
            /\ (out'.op = "Read" /\ Len(tee'.w) - Len(tee.w) < Len(tee.r) - Len(tee'.r))
                  => out'.err = "errSink"
            /\ tee'.w = WireBytes(0, Total - Len(tee'.r)) ]_vars

\* C25 (amended): a Read on a teeReadSeeker that returns n > 0 bytes has
\* appended those n bytes to the sink; a failure of the sink is the error the
\* Read returns; and a Read or Seek that starts with the sink holding the
\* bytes read from the source so far and does not return the error of the
\* sink ends with the sink holding them again.
C25_SinkMirrorsUntilFailure ==
    [][ (out'.op \in {"Read", "Seek"}) =>
            /\ (out'.op = "Read" /\ out'.n > 0) =>
                  /\ tee'.w = tee.w \o out'.data
                  /\ out'.data = WireBytes(Consumed, out'.n)
            /\ (out'.op = "Read" /\ Len(tee'.w) - Len(tee.w) < Len(tee.r) - Len(tee'.r))
                  => out'.err = "errSink"
            /\ (tee.w = WireBytes(0, Consumed) /\ out'.err # "errSink")
                  => tee'.w = WireBytes(0, Total - Len(tee'.r))
            /\ Len(tee'.w) <= Total - Len(tee'.r) ]_vars

\* A Read, a forward Seek and a Read consumed four bytes of the source, and the
\* sink, one that can fail but did not, holds the four.
C25_Witness ==
    /\ tee.werr /\ out.op = "Read" /\ out.n = 1 /\ out.err \in {"nil", "EOF"}
    /\ out.calls = 3 /\ out.seeks = 1
    /\ Consumed = 4 /\ tee.w = WireBytes(0, 4)

\* C26 (as claimed): with Server.Write and Server.Pipe called from different
\* goroutines, the bytes of a Write that has returned success on a piped
\* wrapper are on the underlying stream: none of them is left behind in the
\* output buffer.
C26_WriteReachesStream ==
    (isPiped /\ ret.op = "Write" /\ ret.err = "nil") =>
        \A i \in 1..ret.n : \E j \in 1..Len(connOut) : connOut[j] = ret.data[i]

\* C27 (as claimed): Client.Pipe returns and leaves the wrapper piped in every
\* state that Write, Replay, SetNewConn, Close and Pipe lead to; it never ends
\* in a run-time panic for indexing the output buffer out of range.
C27_PipeCompletes ==
    (kind = "Client" /\ ret.op = "Pipe") => (isPiped /\ ~panicked /\ ret.err # "panic")

\* C28: while a Reader is buffering, ReadAt leaves the cursor at its offset
\* plus the number of bytes it returned, or at the end of the captured bytes
\* when the source ends before the offset; and a Read that follows returns the
\* bytes from there on.
C28_ReadAtMovesCursor ==
    [][ /\ (~rd.pipe /\ out'.op = "ReadAt") =>
              rd'.pos = (IF Total < out'.pos0 THEN Len(rd'.buf)
                         ELSE out'.pos0 + out'.n)
        /\ (~rd.pipe /\ out.op = "ReadAt" /\ out'.op = "Read") =>
              /\ out'.pos0 = (IF Total < out.pos0 THEN Total ELSE out.pos0 + out.n)
              /\ out'.data = WireBytes(out'.pos0, out'.n) ]_vars

\* The first call on a Reader, a ReadAt of one byte at offset 2, returned the
\* byte at offset 2 and moved the cursor from 0 to 3.
C28_Witness ==
    /\ ~rd.pipe /\ out.op = "ReadAt" /\ out.calls = 1
    /\ out.pos0 = 2 /\ out.arg = 1 /\ out.n = 1 /\ out.data = WireBytes(2, 1)
    /\ rd.pos = 3

\* C29 (as claimed): a Seek on a forwardMultiReadSeeker to a target past the
\* last byte of its sources returns end-of-data and the number of bytes the
\* sources held, and leaves the reader at their end, where a Read returns no
\* bytes and end-of-data.
C29_SeekPastEnd ==
    [][ (out'.op = "Seek" /\ out'.whence \in {"SeekStart", "SeekCurrent"}
           /\ SeekTarget(mr.pos, out'.arg, out'.whence).abs >= mr.pos
           /\ SeekTarget(mr.pos, out'.arg, out'.whence).abs > Total) =>
            /\ out'.err = "EOF"
            /\ out'.n = Total /\ mr'.pos = Total
            /\ \A o \in MR_Read(mr', 1) : o.n = 0 /\ o.err = "EOF" ]_vars

=============================================================================
